---- MODULE Spec2Model ----
(***************************************************************************)
(* Beam implementations of the tf.Transform canonical analyzers            *)
(* (tensorflow_transform/beam/analyzer_impls.py).                          *)
(*                                                                         *)
(* _AnalyzerImpl dispatches a spec to _UniquesAnalyzerImpl (vocabulary     *)
(* file) or to _CombinerAnalyzerImpl (CombineGlobally of a                 *)
(* _CombineFnWrapper).  A PCollection is a bag; every PTransform of the    *)
(* pipeline is one action, enabled when its inputs are complete.  Strings  *)
(* are sequences of character codes.                                       *)
(***************************************************************************)
EXTENDS Bags, FiniteSets, Integers, Sequences, TLC

(***************************************************************************)
(* Bounds of the model.                                                    *)
(***************************************************************************)
MaxBatches == 2
MaxElements == 3
MaxBatchLen == 2
MaxTopK == 1
MaxThreshold == 2
MaxVal == 1
MaxCombinerBatches == 3
MaxExampleBatches == 3
MaxWrappers == 2

(***************************************************************************)
(* Character codes and strings.                                            *)
(***************************************************************************)
LF == 10
CR == 13
SPACE == 32
ZERO == 48

\* An optional setting is None or the 1-tuple of its value.
None == <<>>

Some(S) == {<<x>> : x \in S}

\* The elements a batch may hold: "", "a", "b", "ab", "b\n", "\r".
Elements == {<<>>, <<97>>, <<98>>, <<97, 98>>, <<98, LF>>, <<CR>>}

\* The values a batch of a combiner analyzer may hold.
Vals == 0..MaxVal

\* '49d0cd50-04bb-48c0-bc6f-5b575dce351a'
SENTINEL == <<52, 57, 100, 48, 99, 100, 53, 48, 45, 48, 52, 98, 98, 45, 52, 56,
              99, 48, 45, 98, 99, 54, 102, 45, 53, 98, 53, 55, 53, 100, 99, 101,
              51, 53, 49, 97>>

TEMP_ASSETS_DIR == <<116, 109, 112>>
VOCAB_FILENAME == <<118>>

VARIABLES
  spec,               \* the analyzer spec handed to _AnalyzerImpl
  stage,              \* how far the pipeline has run
  error,              \* the exception the analyzer raised, or "none"
  observed,           \* bag of the elements of the batches read so far
  nBatches,           \* number of batches read so far
  inputClosed,        \* the bounded input PCollection is exhausted
  partials,           \* (element, count) pairs in flight to CountGlobally
  counted,            \* output of CountGlobally
  swapped,            \* output of SwapElementsAndCounts
  thresholded,        \* output of FilterByFrequencyThreshold
  topped,             \* output of Top / FlattenList
  resharded,          \* output of Reshard
  vocab,              \* the sorted list built by order_by_decreasing_counts
  nOrderCalls,        \* number of calls of order_by_decreasing_counts
  vocabulary_size,    \* samples of the vocabulary_size distribution
  lines,              \* output of OrderByDecreasingCounts
  file,               \* the vocabulary file: state and lines
  pathCreated,        \* CreatePath has produced its element
  accs,               \* accumulators of CombineGlobally in flight
  wrapper,            \* the _CombineFnWrapper instance the methods run on
  output              \* the elements of the PCollection the analyzer returns

vars == <<spec, stage, error, observed, nBatches, inputClosed, partials,
          counted, swapped, thresholded, topped, resharded, vocab,
          nOrderCalls, vocabulary_size, lines, file, pathCreated, accs,
          wrapper, output>>

uniquesVars == <<partials, counted, swapped, thresholded, topped, resharded,
                 vocab, nOrderCalls, vocabulary_size, lines, file,
                 pathCreated>>

(***************************************************************************)
(* Helpers on sequences and bags.                                          *)
(***************************************************************************)
Range(s) == {s[i] : i \in 1..Len(s)}

SeqsUpTo(S, n) == UNION {[1..m -> S] : m \in 0..n}

BagOf(x) == SetToBag({x})

RECURSIVE BagOfSeq(_)
BagOfSeq(s) ==
  IF s = <<>> THEN EmptyBag ELSE BagOf(Head(s)) (+) BagOfSeq(Tail(s))

\* Every order in which the elements of a bag can be iterated.
RECURSIVE Orders(_)
Orders(B) ==
  IF BagToSet(B) = {} THEN {<<>>}
  ELSE UNION {{<<x>> \o s : s \in Orders(B (-) BagOf(x))} : x \in BagToSet(B)}

\* The bag B restricted to the elements of the set S.
BagRestrict(B, S) == [x \in S |-> B[x]]

\* The number of copies in the bag B of the elements of the set S.
RECURSIVE CopiesOf(_, _)
CopiesOf(B, S) ==
  IF S = {} THEN 0
  ELSE LET x == CHOOSE y \in S : TRUE
       IN  CopiesIn(x, B) + CopiesOf(B, S \ {x})

(***************************************************************************)
(* Python orderings: str < str is lexicographic by code point, tuple <     *)
(* tuple compares the first items and then the second.                     *)
(***************************************************************************)
StrLess(s, t) ==
  \E i \in 1..(Len(t)) :
     /\ \A j \in 1..(i - 1) : j <= Len(s) /\ s[j] = t[j]
     /\ (i > Len(s) \/ s[i] < t[i])

\* Variant: tuples compared on the element first.
TupleLessElementFirst(x, y) ==
  \/ StrLess(x[2], y[2])
  \/ x[2] = y[2] /\ x[1] < y[1]

TupleLess(x, y) ==
  \/ x[1] < y[1]
  \/ x[1] = y[1] /\ StrLess(x[2], y[2])

(***************************************************************************)
(* The analyzer specs.  A _UniquesSpec carries top_k, frequency_threshold, *)
(* store_frequency and vocab_filename; "quantiles" is a                    *)
(* _QuantilesCombinerSpec, "sum" a CombinerSpec whose accumulator is a     *)
(* running sum, "other" a spec of neither class.                           *)
(***************************************************************************)
UniquesSpecs ==
  [kind : {"uniques"},
   top_k : {None} \cup Some(-1..MaxTopK),
   frequency_threshold : {None} \cup Some(-1..MaxThreshold),
   store_frequency : BOOLEAN,
   vocab_filename : {VOCAB_FILENAME}]

CombinerSpecs == [kind : {"quantiles", "sum"}]

Specs == UniquesSpecs \cup CombinerSpecs \cup [kind : {"other"}]

IsUniquesSpec(sp) == sp.kind = "uniques"

\* Variant: every spec that is not a _UniquesSpec is taken for a CombinerSpec.
IsCombinerSpecAny(sp) == TRUE

IsCombinerSpec(sp) == sp.kind \in {"quantiles", "sum"}

IsQuantilesCombinerSpec(sp) == sp.kind = "quantiles"

(***************************************************************************)
(* _UniquesAnalyzerImpl: the functions of the pipeline.                    *)
(***************************************************************************)
\* A batch is the 1-tuple of its ndarray; ravel().tolist() of it.
flatten_value_to_list(batch_values) == batch_values[1]

\* Variant: every distinct element of the list counted once.
CounterItemsOnes(lst) == {<<e, 1>> : e \in Range(lst)}

\* six.iteritems(collections.Counter(lst))
CounterItems(lst) ==
  {<<e, Cardinality({i \in 1..Len(lst) : lst[i] = e})>> : e \in Range(lst)}

\* Variant: an idempotent merge, the largest of the values.
sumIdempotent(values) ==
  IF values = <<>> THEN 0
  ELSE CHOOSE m \in Range(values) : \A v \in Range(values) : v <= m

\* The builtin sum, the CombineFn of CountGlobally.
RECURSIVE sum(_)
sum(values) ==
  IF values = <<>> THEN 0 ELSE Head(values) + sum(Tail(values))

\* Variant: equal partial results of a key are taken once.
CountsOfKeyOnce(B, k) ==
  LET once[S \in SUBSET BagToSet(B)] ==
        IF S = {} THEN <<>>
        ELSE LET p == CHOOSE q \in S : TRUE
             IN  (IF p[1] = k THEN <<p[2]>> ELSE <<>>) \o once[S \ {p}]
  IN  once[BagToSet(B)]

\* The counts of the partial results of one key, in some order.
RECURSIVE CountsOfKey(_, _)
CountsOfKey(B, k) ==
  IF BagToSet(B) = {} THEN <<>>
  ELSE LET p == CHOOSE q \in BagToSet(B) : TRUE
       IN  (IF p[1] = k THEN <<p[2]>> ELSE <<>>)
             \o CountsOfKey(B (-) BagOf(p), k)

\* Variant: the carriage return is not looked for.
FilterOnlyLineFeed(kv) ==
  /\ kv[1] # <<>>
  /\ LF \notin Range(kv[1])

\* lambda kv: kv[0] and '\n' not in kv[0] and '\r' not in kv[0]
FilterProblematicStrings(kv) ==
  /\ kv[1] # <<>>
  /\ LF \notin Range(kv[1])
  /\ CR \notin Range(kv[1])

KvSwap(kv) == <<kv[2], kv[1]>>

\* Variant: a strict comparison with the threshold.
FilterStrictlyAbove(kv, frequency_threshold) ==
  kv[1] > frequency_threshold

\* lambda kv: kv[0] >= frequency_threshold
FilterByFrequencyThreshold(kv, frequency_threshold) ==
  kv[1] >= frequency_threshold

\* Top.Largest(n): a heap of at most n elements; an element arriving at a
\* full heap is pushed and the smallest popped (heappushpop).
HeapMin(heap) ==
  CHOOSE i \in 1..Len(heap) :
    \A j \in 1..Len(heap) : ~TupleLess(heap[j], heap[i])

\* Variant: an element arriving at a full heap is dropped.
TopAddInputKeepFirst(heap, x, n) ==
  IF Len(heap) < n THEN Append(heap, x) ELSE heap

TopAddInput(heap, x, n) ==
  IF Len(heap) < n THEN Append(heap, x)
  ELSE IF heap # <<>> /\ TupleLess(heap[HeapMin(heap)], x)
       THEN [heap EXCEPT ![HeapMin(heap)] = x]
       ELSE heap

RECURSIVE TopLargest(_, _, _)
TopLargest(heap, inputs, n) ==
  IF inputs = <<>> THEN heap
  ELSE TopLargest(TopAddInput(heap, Head(inputs), n), Tail(inputs), n)

\* Variant: a stable sort on the counts alone.
InsertByCountOnly(sorted, x) ==
  LET k == Cardinality({i \in 1..Len(sorted) : sorted[i][1] >= x[1]})
  IN  SubSeq(sorted, 1, k) \o <<x>> \o SubSeq(sorted, k + 1, Len(sorted))

\* counts.sort(reverse=True): a stable sort, largest first.
InsertReverse(sorted, x) ==
  LET k == Cardinality({i \in 1..Len(sorted) : ~TupleLess(sorted[i], x)})
  IN  SubSeq(sorted, 1, k) \o <<x>> \o SubSeq(sorted, k + 1, Len(sorted))

RECURSIVE SortReverse(_, _)
SortReverse(sorted, rest) ==
  IF rest = <<>> THEN sorted
  ELSE SortReverse(InsertReverse(sorted, Head(rest)), Tail(rest))

\* str(count)
RECURSIVE Str(_)
Str(n) ==
  IF n < 10 THEN <<ZERO + n>> ELSE Str(n \div 10) \o <<ZERO + (n % 10)>>

\* Variant: the element before the count.
FormatEntryElementFirst(entry, store_frequency) ==
  IF store_frequency THEN entry[2] \o <<SPACE>> \o Str(entry[1])
  ELSE entry[2]

\* '{} {}'.format(count, element) if store_frequency, else element
FormatEntry(entry, store_frequency) ==
  IF store_frequency THEN Str(entry[1]) \o <<SPACE>> \o entry[2]
  ELSE entry[2]

\* Variant: an empty vocabulary stays empty.
CountsNoSentinel(counts_iter) == counts_iter

\* list(counts_iter), with the sentinel entry for an empty vocabulary
CountsOrSentinel(counts_iter) ==
  IF counts_iter = <<>> THEN <<<<1, SENTINEL>>>> ELSE counts_iter

\* Variant: the metric is updated with the length of the side input.
order_by_decreasing_counts_of_input(counts_iter, store_frequency) ==
  LET counts == SortReverse(<<>>, CountsOrSentinel(counts_iter))
  IN  [counts |-> counts,
       size |-> Len(counts_iter),
       lines |-> [i \in 1..Len(counts) |->
                    FormatEntry(counts[i], store_frequency)]]

\* order_by_decreasing_counts: the sorted list, the metric sample, the lines
order_by_decreasing_counts(counts_iter, store_frequency) ==
  LET counts == SortReverse(<<>>, CountsOrSentinel(counts_iter))
  IN  [counts |-> counts,
       size |-> Len(counts),
       lines |-> [i \in 1..Len(counts) |->
                    FormatEntry(counts[i], store_frequency)]]

\* os.path.join(a, b)
OsPathJoin(a, b) ==
  IF b # <<>> /\ b[1] = 47 THEN b
  ELSE IF a = <<>> \/ a[Len(a)] = 47 THEN a \o b
  ELSE a \o <<47>> \o b

vocabulary_file == OsPathJoin(TEMP_ASSETS_DIR, spec.vocab_filename)

\* Variant: the path is mapped without the side input.
VocabIsWrittenNoWait == TRUE

\* Variant: the side input is taken for complete once a temporary file exists.
VocabIsWrittenOnTemp == file.state # "absent"

\* The side input AsIter(vocab_is_written) is available once WriteToText
\* has finished.
VocabIsWritten == file.state = "final"

(***************************************************************************)
(* The inputs of the successive stages: `counts` is rebound only when the  *)
(* optional transform is applied.                                          *)
(***************************************************************************)
TopInputStage ==
  IF spec.frequency_threshold # None THEN "thresholded" ELSE "swapped"

TopInput ==
  IF spec.frequency_threshold # None THEN thresholded ELSE swapped

ReshardInputStage == IF spec.top_k # None THEN "topped" ELSE TopInputStage

ReshardInput == IF spec.top_k # None THEN topped ELSE TopInput

(***************************************************************************)
(* Combiner specs.  The quantiles spec keeps a summary of the values seen  *)
(* and extracts its bounds; the sum spec keeps a running sum.              *)
(***************************************************************************)
SetMin(S) == CHOOSE x \in S : \A y \in S : x <= y

SetMax(S) == CHOOSE x \in S : \A y \in S : y <= x

QuantilesCreateAccumulator == {}

QuantilesAddInput(accumulator, next_input) ==
  accumulator \cup Range(next_input[1])

QuantilesMergeAccumulators(accumulators) == UNION Range(accumulators)

QuantilesExtractOutput(accumulator) ==
  IF accumulator = {} THEN <<>>
  ELSE <<SetMin(accumulator), SetMax(accumulator)>>

SumCreateAccumulator == 0

SumAddInput(accumulator, next_input) == accumulator + sum(next_input[1])

SumMergeAccumulators(accumulators) == sum(accumulators)

SumExtractOutput(accumulator) == accumulator

(***************************************************************************)
(* _CombineFnWrapper: every method delegates to the spec.                  *)
(***************************************************************************)
create_accumulator(sp) ==
  IF IsQuantilesCombinerSpec(sp) THEN QuantilesCreateAccumulator
  ELSE SumCreateAccumulator

add_input(sp, accumulator, next_input) ==
  IF IsQuantilesCombinerSpec(sp)
  THEN QuantilesAddInput(accumulator, next_input)
  ELSE SumAddInput(accumulator, next_input)

\* Variant: only the first accumulator of the group is kept.
merge_accumulators_first(sp, accumulators) == accumulators[1]

merge_accumulators(sp, accumulators) ==
  IF IsQuantilesCombinerSpec(sp)
  THEN QuantilesMergeAccumulators(accumulators)
  ELSE SumMergeAccumulators(accumulators)

extract_output(sp, accumulator) ==
  IF IsQuantilesCombinerSpec(sp) THEN QuantilesExtractOutput(accumulator)
  ELSE SumExtractOutput(accumulator)

\* No _CombineFnWrapper has been constructed.
NoWrapper == [id |-> 0, inits |-> 0, used |-> FALSE]

\* _CombineFnWrapper.__init__: the id-th instance; inits counts the calls of
\* spec.initialize_local_state made for it.
CombineFnWrapperInit(sp, id) ==
  [id |-> id,
   inits |-> IF IsQuantilesCombinerSpec(sp) THEN 1 ELSE 0,
   used |-> FALSE]

\* Variant: the instance is rebuilt from its attributes, __init__ is not run.
ReconstructFromState(sp, id) == [id |-> id, inits |-> 0, used |-> FALSE]

\* __reduce__: the serialized form is the class with the arguments
\* (spec, serialized_tf_config); loading it calls the class on them.
Reconstruct(sp, id) == CombineFnWrapperInit(sp, id)

\* A method of the wrapper has been called.
Called(w) == [w EXCEPT !.used = TRUE]

\* Variant: .without_defaults() is never applied.
HasDefaultsAlways(sp) == TRUE

\* CombineGlobally keeps its default unless .without_defaults() is applied.
HasDefaults(sp) == IsQuantilesCombinerSpec(sp)

(***************************************************************************)
(* The batches of the input PCollection.                                   *)
(***************************************************************************)
ElementBatches == {<<lst>> : lst \in SeqsUpTo(Elements, MaxBatchLen)}

ValueBatches == {<<lst>> : lst \in SeqsUpTo(Vals, MaxBatchLen)}

(***************************************************************************)
(* Initial state: a spec, and a pipeline that has not been built.          *)
(***************************************************************************)
Init ==
  /\ spec \in Specs
  /\ stage = "init"
  /\ error = "none"
  /\ observed = EmptyBag
  /\ nBatches = 0
  /\ inputClosed = FALSE
  /\ partials = EmptyBag
  /\ counted = EmptyBag
  /\ swapped = EmptyBag
  /\ thresholded = EmptyBag
  /\ topped = EmptyBag
  /\ resharded = EmptyBag
  /\ vocab = <<>>
  /\ nOrderCalls = 0
  /\ vocabulary_size = <<>>
  /\ lines = <<>>
  /\ file = [state |-> "absent", lines |-> <<>>]
  /\ pathCreated = FALSE
  /\ accs = EmptyBag
  /\ wrapper = NoWrapper
  /\ output = <<>>

(***************************************************************************)
(* _AnalyzerImpl.expand, with the expand of the transform it dispatches    *)
(* to: the assertions of _UniquesAnalyzerImpl.expand, or the construction  *)
(* of the CombineGlobally.                                                 *)
(***************************************************************************)
UniquesAssertions(sp) ==
  /\ sp.top_k = None \/ sp.top_k[1] >= 0
  /\ sp.frequency_threshold = None \/ sp.frequency_threshold[1] >= 0

AnalyzerImplExpand ==
  /\ stage = "init"
  /\ IF IsUniquesSpec(spec)
     THEN IF UniquesAssertions(spec)
          THEN stage' = "counting" /\ error' = error
          ELSE stage' = "failed" /\ error' = "AssertionError"
     ELSE IF IsCombinerSpec(spec)
          THEN stage' = "combining" /\ error' = error
          ELSE stage' = "failed" /\ error' = "NotImplementedError"
  /\ wrapper' = IF ~IsUniquesSpec(spec) /\ IsCombinerSpec(spec)
                THEN CombineFnWrapperInit(spec, 1)
                ELSE wrapper
  /\ UNCHANGED <<spec, observed, nBatches, inputClosed, uniquesVars, accs,
                 output>>

\* The bounded input PCollection has no more batches.
CloseInput ==
  /\ stage \in {"counting", "combining"}
  /\ ~inputClosed
  /\ inputClosed' = TRUE
  /\ UNCHANGED <<spec, stage, error, observed, nBatches, uniquesVars, accs,
                 wrapper,
                 output>>

(***************************************************************************)
(* _UniquesAnalyzerImpl.expand: the transforms.                            *)
(***************************************************************************)
\* FlattenValueToList and CountWithinList on one batch.
CountBatch(batch) ==
  /\ stage = "counting"
  /\ ~inputClosed
  /\ LET lst == flatten_value_to_list(batch)
     IN  /\ observed' = observed (+) BagOfSeq(lst)
         /\ partials' = partials (+) SetToBag(CounterItems(lst))
  /\ nBatches' = nBatches + 1
  /\ UNCHANGED <<spec, stage, error, inputClosed, counted, swapped,
                 thresholded, topped, resharded, vocab, nOrderCalls,
                 vocabulary_size, lines, file, pathCreated, accs,
                 wrapper, output>>

\* A batch of the bounded input.
CountWithinList(batch) ==
  /\ stage = "counting"
  /\ nBatches < MaxBatches
  /\ BagCardinality(observed) + Len(batch[1]) <= MaxElements
  /\ CountBatch(batch)

\* The input a, b, a, c, b, a, cut into batches at any places, for a spec
\* that stores the frequency and has no threshold: the batch of the next n
\* elements.
ExampleInput == <<<<97>>, <<98>>, <<97>>, <<99>>, <<98>>, <<97>>>>

CountWithinExample(n) ==
  /\ stage = "counting"
  /\ IsUniquesSpec(spec)
  /\ spec.store_frequency
  /\ spec.frequency_threshold = None
  /\ nBatches < MaxExampleBatches
  /\ LET read == BagCardinality(observed)
     IN  /\ read + n <= Len(ExampleInput)
         /\ observed = BagOfSeq(SubSeq(ExampleInput, 1, read))
         /\ CountBatch(<<SubSeq(ExampleInput, read + 1, read + n)>>)

\* CombinePerKey(sum) combines two partial counts of a key before the
\* grouping is complete.
CountGloballyPartial ==
  /\ stage = "counting"
  /\ \E p, q \in BagToSet(partials) :
        /\ p[1] = q[1]
        /\ p # q \/ CopiesIn(p, partials) >= 2
        /\ partials' = ((partials (-) BagOf(p)) (-) BagOf(q))
                         (+) BagOf(<<p[1], sum(<<p[2], q[2]>>)>>)
  /\ UNCHANGED <<spec, stage, error, observed, nBatches, inputClosed,
                 counted, swapped, thresholded, topped, resharded, vocab,
                 nOrderCalls, vocabulary_size, lines, file, pathCreated, accs,
                 wrapper,
                 output>>

\* Variant: the partial results are passed on without being combined.
CountGloballyUnmerged(B) == B

\* CombinePerKey(sum): one (element, count) pair per key, once the input is
\* complete.
CountGloballyOf(B) ==
  SetToBag({<<k, sum(CountsOfKey(B, k))>> : k \in {p[1] : p \in BagToSet(B)}})

CountGlobally ==
  /\ stage = "counting"
  /\ inputClosed
  /\ counted' = CountGloballyOf(partials)
  /\ partials' = EmptyBag
  /\ stage' = "counted"
  /\ UNCHANGED <<spec, error, observed, nBatches, inputClosed, swapped,
                 thresholded, topped, resharded, vocab, nOrderCalls,
                 vocabulary_size, lines, file, pathCreated, accs,
                 wrapper, output>>

\* beam.Filter(FilterProblematicStrings) on a PCollection.
FilterProblematicStringsOf(B) ==
  BagRestrict(B, {kv \in BagToSet(B) : FilterProblematicStrings(kv)})

\* beam.KvSwap() on a PCollection.
SwapElementsAndCounts(B) ==
  [y \in {KvSwap(kv) : kv \in BagToSet(B)} |->
     CopiesOf(B, {kv \in BagToSet(B) : KvSwap(kv) = y})]

\* beam.Filter(lambda kv: kv[0] >= frequency_threshold) on a PCollection.
FilterByFrequencyThresholdOf(B, frequency_threshold) ==
  BagRestrict(B, {kv \in BagToSet(B) :
                    FilterByFrequencyThreshold(kv, frequency_threshold)})

\* FilterProblematicStrings and SwapElementsAndCounts.
FilterAndSwap ==
  /\ stage = "counted"
  /\ swapped' = SwapElementsAndCounts(FilterProblematicStringsOf(counted))
  /\ stage' = "swapped"
  /\ UNCHANGED <<spec, error, observed, nBatches, inputClosed, partials,
                 counted, thresholded, topped, resharded, vocab, nOrderCalls,
                 vocabulary_size, lines, file, pathCreated, accs,
                 wrapper, output>>

FilterByThreshold ==
  /\ stage = "swapped"
  /\ spec.frequency_threshold # None
  /\ thresholded' =
       FilterByFrequencyThresholdOf(swapped, spec.frequency_threshold[1])
  /\ stage' = "thresholded"
  /\ UNCHANGED <<spec, error, observed, nBatches, inputClosed, partials,
                 counted, swapped, topped, resharded, vocab, nOrderCalls,
                 vocabulary_size, lines, file, pathCreated, accs,
                 wrapper, output>>

\* Top.Largest(top_k) and FlattenList, for every arrival order of the input.
Top ==
  /\ IsUniquesSpec(spec)
  /\ stage = TopInputStage
  /\ spec.top_k # None
  /\ \E inputs \in Orders(TopInput) :
        topped' = BagOfSeq(TopLargest(<<>>, inputs, spec.top_k[1]))
  /\ stage' = "topped"
  /\ UNCHANGED <<spec, error, observed, nBatches, inputClosed, partials,
                 counted, swapped, thresholded, resharded, vocab, nOrderCalls,
                 vocabulary_size, lines, file, pathCreated, accs,
                 wrapper, output>>

Reshard ==
  /\ IsUniquesSpec(spec)
  /\ stage = ReshardInputStage
  /\ resharded' = ReshardInput
  /\ stage' = "resharded"
  /\ UNCHANGED <<spec, error, observed, nBatches, inputClosed, partials,
                 counted, swapped, thresholded, topped, vocab, nOrderCalls,
                 vocabulary_size, lines, file, pathCreated, accs,
                 wrapper, output>>

\* Prepare and OrderByDecreasingCounts: one call, the side input iterated in
\* any order.
OrderByDecreasingCounts ==
  /\ stage = "resharded"
  /\ \E counts_iter \in Orders(resharded) :
        LET r == order_by_decreasing_counts(counts_iter, spec.store_frequency)
        IN  /\ vocab' = r.counts
            /\ vocabulary_size' = Append(vocabulary_size, r.size)
            /\ lines' = r.lines
  /\ nOrderCalls' = nOrderCalls + 1
  /\ stage' = "ordered"
  /\ UNCHANGED <<spec, error, observed, nBatches, inputClosed, partials,
                 counted, swapped, thresholded, topped, resharded, file,
                 pathCreated, accs, wrapper, output>>

\* WriteToText writes the lines to a temporary file ...
WriteToFile ==
  /\ stage = "ordered"
  /\ file' = [state |-> "temp", lines |-> lines]
  /\ stage' = "writing"
  /\ UNCHANGED <<spec, error, observed, nBatches, inputClosed, partials,
                 counted, swapped, thresholded, topped, resharded, vocab,
                 nOrderCalls, vocabulary_size, lines, pathCreated, accs,
                 wrapper,
                 output>>

\* ... and renames it to vocabulary_file; vocab_is_written is then complete.
FinalizeWrite ==
  /\ stage = "writing"
  /\ file' = [file EXCEPT !.state = "final"]
  /\ stage' = "written"
  /\ UNCHANGED <<spec, error, observed, nBatches, inputClosed, partials,
                 counted, swapped, thresholded, topped, resharded, vocab,
                 nOrderCalls, vocabulary_size, lines, pathCreated, accs,
                 wrapper,
                 output>>

\* WriteToText fails: while writing the temporary file, which is left absent
\* or partial, or while renaming it.  The error ends the pipeline.
WriteFail ==
  /\ \/ /\ stage = "ordered"
        /\ \E n \in 0..(Len(lines) - 1) :
              file' = [state |-> IF n = 0 THEN "absent" ELSE "partial",
                       lines |-> SubSeq(lines, 1, n)]
     \/ /\ stage = "writing"
        /\ file' = file
  /\ stage' = "failed"
  /\ error' = "IOError"
  /\ UNCHANGED <<spec, observed, nBatches, inputClosed, partials, counted,
                 swapped, thresholded, topped, resharded, vocab, nOrderCalls,
                 vocabulary_size, lines, pathCreated, accs, wrapper, output>>

\* The execution is cancelled before the write has completed: no transform
\* runs any more and the PCollections in flight are dropped; a temporary
\* file and the metric already reported stay.
Cancel ==
  /\ stage \in {"counting", "counted", "swapped", "thresholded", "topped",
                "resharded", "ordered", "writing"}
  /\ stage' = "cancelled"
  /\ partials' = EmptyBag
  /\ counted' = EmptyBag
  /\ swapped' = EmptyBag
  /\ thresholded' = EmptyBag
  /\ topped' = EmptyBag
  /\ resharded' = EmptyBag
  /\ vocab' = <<>>
  /\ lines' = <<>>
  /\ UNCHANGED <<spec, error, observed, nBatches, inputClosed, nOrderCalls,
                 vocabulary_size, file, pathCreated, accs, wrapper, output>>

\* CreatePath has no input: it may run at any time.
CreatePath ==
  /\ IsUniquesSpec(spec)
  /\ stage \notin {"init", "failed", "cancelled"}
  /\ ~pathCreated
  /\ pathCreated' = TRUE
  /\ UNCHANGED <<spec, stage, error, observed, nBatches, inputClosed,
                 partials, counted, swapped, thresholded, topped, resharded,
                 vocab, nOrderCalls, vocabulary_size, lines, file, accs,
                 wrapper,
                 output>>

\* WaitForVocabularyFile: lambda x, y: x, with y the side input
\* AsIter(vocab_is_written).
WaitForVocabularyFile ==
  /\ stage \notin {"failed", "cancelled"}
  /\ pathCreated
  /\ VocabIsWritten
  /\ output = <<>>
  /\ output' = <<vocabulary_file>>
  /\ UNCHANGED <<spec, stage, error, observed, nBatches, inputClosed,
                 uniquesVars, accs, wrapper>>

(***************************************************************************)
(* _CombinerAnalyzerImpl.expand: CombineGlobally(_CombineFnWrapper(spec)). *)
(***************************************************************************)
\* A batch is added to a new accumulator or to one in flight.
AddInput(batch) ==
  /\ stage = "combining"
  /\ ~inputClosed
  /\ nBatches < MaxCombinerBatches
  /\ \/ accs' = accs (+) BagOf(add_input(spec, create_accumulator(spec), batch))
     \/ \E a \in BagToSet(accs) :
           accs' = (accs (-) BagOf(a)) (+) BagOf(add_input(spec, a, batch))
  /\ observed' = observed (+) BagOfSeq(batch[1])
  /\ nBatches' = nBatches + 1
  /\ wrapper' = Called(wrapper)
  /\ UNCHANGED <<spec, stage, error, inputClosed, uniquesVars, output>>

\* Any non-empty group of accumulators is merged, in any order.
MergeAccumulators ==
  /\ stage = "combining"
  /\ \E group \in SubBag(accs) :
        /\ BagToSet(group) # {}
        /\ \E accumulators \in Orders(group) :
              accs' = (accs (-) group)
                        (+) BagOf(merge_accumulators(spec, accumulators))
  /\ wrapper' = Called(wrapper)
  /\ UNCHANGED <<spec, stage, error, observed, nBatches, inputClosed,
                 uniquesVars, output>>

\* The wrapper is serialized and loaded again, on a worker that takes over:
\* the methods are called on the new instance from then on.
Deserialize ==
  /\ stage = "combining"
  /\ wrapper.id < MaxWrappers
  /\ wrapper' = Reconstruct(spec, wrapper.id + 1)
  /\ UNCHANGED <<spec, stage, error, observed, nBatches, inputClosed,
                 uniquesVars, accs, output>>

\* The result of CombineGlobally once the input is complete: the output of
\* the merged accumulators; for an empty input the default, if kept.
CombineGlobally ==
  /\ stage = "combining"
  /\ inputClosed
  /\ IF BagToSet(accs) = {}
     THEN output' = IF HasDefaults(spec)
                    THEN <<extract_output(spec, create_accumulator(spec))>>
                    ELSE <<>>
     ELSE \E accumulators \in Orders(accs) :
             output' = <<extract_output(spec,
                           merge_accumulators(spec, accumulators))>>
  /\ accs' = EmptyBag
  /\ wrapper' = IF BagToSet(accs) = {} /\ ~HasDefaults(spec)
                THEN wrapper
                ELSE Called(wrapper)
  /\ stage' = "done"
  /\ UNCHANGED <<spec, error, observed, nBatches, inputClosed, uniquesVars>>

Next ==
  \/ AnalyzerImplExpand
  \/ CloseInput
  \/ \E batch \in ElementBatches : CountWithinList(batch)
  \/ \E n \in 1..Len(ExampleInput) : CountWithinExample(n)
  \/ CountGloballyPartial
  \/ CountGlobally
  \/ FilterAndSwap
  \/ FilterByThreshold
  \/ Top
  \/ Reshard
  \/ OrderByDecreasingCounts
  \/ WriteToFile
  \/ FinalizeWrite
  \/ WriteFail
  \/ Cancel
  \/ CreatePath
  \/ WaitForVocabularyFile
  \/ \E batch \in ValueBatches : AddInput(batch)
  \/ MergeAccumulators
  \/ CombineGlobally

Spec == Init /\ [][Next]_vars

(***************************************************************************)
(* The combiner analyzer on workers that are replaced: the pipeline of     *)
(* _CombinerAnalyzerImpl with the wrapper loaded again from its serialized *)
(* form at any time.                                                       *)
(***************************************************************************)
WrapperInit == Init /\ ~IsUniquesSpec(spec)

WrapperNext ==
  \/ AnalyzerImplExpand
  \/ CloseInput
  \/ \E batch \in ValueBatches : AddInput(batch)
  \/ MergeAccumulators
  \/ CombineGlobally
  \/ Deserialize

WrapperSpec == WrapperInit /\ [][WrapperNext]_vars

TypeOK ==
  /\ spec \in Specs
  /\ nBatches \in 0..(MaxBatches + MaxCombinerBatches + MaxExampleBatches)
  /\ Len(output) <= 1

(***************************************************************************)
(* What the vocabulary must be, stated on the bag of observed elements.    *)
(***************************************************************************)
WellFormed(e) == e # <<>> /\ \A i \in 1..Len(e) : e[i] # LF /\ e[i] # CR

\* One (count, element) entry per well-formed element observed.
RefTable ==
  {<<CopiesIn(e, observed), e>> : e \in {x \in BagToSet(observed) : WellFormed(x)}}

RefThresholded ==
  IF spec.frequency_threshold = None THEN RefTable
  ELSE {x \in RefTable : x[1] >= spec.frequency_threshold[1]}

\* x comes before y: larger count, or equal counts and larger element.
Before(x, y) == x[1] > y[1] \/ (x[1] = y[1] /\ StrLess(y[2], x[2]))

\* The k entries of T that come first.
KHighest(T, k) == {x \in T : Cardinality({y \in T : Before(y, x)}) < k}

RefTop ==
  IF spec.top_k = None THEN RefThresholded
  ELSE KHighest(RefThresholded, spec.top_k[1])

RECURSIVE Descending(_)
Descending(T) ==
  IF T = {} THEN <<>>
  ELSE LET m == CHOOSE x \in T : \A y \in T \ {x} : Before(x, y)
       IN  <<m>> \o Descending(T \ {m})

SentinelLine ==
  IF spec.store_frequency THEN <<49, SPACE>> \o SENTINEL ELSE SENTINEL

RefLines ==
  IF RefTop = {} THEN <<SentinelLine>>
  ELSE LET d == Descending(RefTop)
       IN  [i \in 1..Len(d) |->
              IF spec.store_frequency
              THEN Str(d[i][1]) \o <<SPACE>> \o d[i][2]
              ELSE d[i][2]]

Written == IsUniquesSpec(spec) /\ file.state = "final"

(***************************************************************************)
(* C1: the vocabulary path is emitted only after the write of the          *)
(* vocabulary file has completed: in no state is the path in the output    *)
(* while the file is not final.                                            *)
(***************************************************************************)
PathOnlyAfterWrite ==
  (IsUniquesSpec(spec) /\ output # <<>>) =>
     /\ file.state = "final"
     /\ file.lines = lines

PathExposed ==
  /\ IsUniquesSpec(spec)
  /\ output = <<vocabulary_file>>
  /\ pathCreated
  /\ nBatches > 0

(***************************************************************************)
(* C2: the written file is never empty; when no entry survives the         *)
(* filters it holds exactly one line, the sentinel entry (count 1, the     *)
(* placeholder token), which is the token alone without store_frequency.   *)
(***************************************************************************)
ArtifactNeverEmpty ==
  Written =>
     /\ Len(file.lines) >= 1
     /\ RefTop = {} =>
          /\ vocab = <<<<1, SENTINEL>>>>
          /\ file.lines = <<SentinelLine>>
          /\ ~spec.store_frequency => file.lines = <<SENTINEL>>

SentinelWritten ==
  /\ Written
  /\ RefTop = {}
  /\ BagToSet(counted) # {}
  /\ ~spec.store_frequency
  /\ file.lines = <<SENTINEL>>

(***************************************************************************)
(* C3 as stated: with top_k = k the file holds at most k entries, exactly  *)
(* the k highest entries of the filtered table.  Fails for k = 0 and for   *)
(* an empty table, where the sentinel entry is written.                    *)
(***************************************************************************)
TopKAtMostK ==
  (Written /\ spec.top_k # None) =>
     /\ Len(vocab) <= spec.top_k[1]
     /\ Range(vocab) = KHighest(BagToSet(TopInput), spec.top_k[1])

(***************************************************************************)
(* C3 amended: with top_k = k the file holds exactly the k highest entries *)
(* of the filtered table, at most k of them, unless there is none (k = 0   *)
(* or an empty table): then it holds the sentinel entry alone.             *)
(***************************************************************************)
TopKOrSentinel ==
  (Written /\ spec.top_k # None) =>
     LET highest == KHighest(BagToSet(TopInput), spec.top_k[1])
     IN  IF highest = {}
         THEN vocab = <<<<1, SENTINEL>>>>
         ELSE /\ Len(vocab) <= spec.top_k[1]
              /\ Len(vocab) = Cardinality(highest)
              /\ Range(vocab) = highest

TopKTruncates ==
  /\ Written
  /\ spec.top_k = <<1>>
  /\ Cardinality(BagToSet(TopInput)) >= 2
  /\ Len(vocab) = 1

(***************************************************************************)
(* C4 as stated: with frequency_threshold = t every entry of the file has  *)
(* count >= t, and without top_k every well-formed element with count     *)
(* >= t is in the file.  Fails when nothing survives and t > 1: the        *)
(* sentinel entry has count 1.                                             *)
(***************************************************************************)
ThresholdAllEntries ==
  (Written /\ spec.frequency_threshold # None) =>
     /\ \A i \in 1..Len(vocab) : vocab[i][1] >= spec.frequency_threshold[1]
     /\ spec.top_k = None =>
          \A x \in RefTable :
             x[1] >= spec.frequency_threshold[1] => x \in Range(vocab)

(***************************************************************************)
(* C4 amended: with frequency_threshold = t every entry of the file other  *)
(* than the sentinel entry has count >= t, and without top_k every         *)
(* well-formed element with count >= t is in the file.                     *)
(***************************************************************************)
ThresholdButSentinel ==
  (Written /\ spec.frequency_threshold # None) =>
     /\ \A i \in 1..Len(vocab) :
           \/ vocab[i][1] >= spec.frequency_threshold[1]
           \/ vocab = <<<<1, SENTINEL>>>> /\ RefTop = {}
     /\ spec.top_k = None =>
          \A x \in RefTable :
             x[1] >= spec.frequency_threshold[1] => x \in Range(vocab)

ThresholdDiscards ==
  /\ Written
  /\ spec.frequency_threshold = <<2>>
  /\ spec.top_k = None
  /\ \E x \in RefTable : x[1] = 1
  /\ \E x \in RefTable : x[1] = 2 /\ x \in Range(vocab)

(***************************************************************************)
(* C5: the entries of the file are in descending order of count and, for   *)
(* equal counts, in descending order of element; the order is strict, and  *)
(* sorting the entries again leaves them unchanged.                        *)
(***************************************************************************)
EntriesDescending ==
  Written =>
     /\ \A i, j \in 1..Len(vocab) :
           i < j =>
             \/ vocab[i][1] > vocab[j][1]
             \/ /\ vocab[i][1] = vocab[j][1]
                /\ StrLess(vocab[j][2], vocab[i][2])
     /\ SortReverse(<<>>, vocab) = vocab
     /\ Len(file.lines) = Len(vocab)

TiesOrdered ==
  /\ Written
  /\ Len(vocab) >= 3
  /\ \E i \in 1..(Len(vocab) - 1) : vocab[i][1] = vocab[i + 1][1]
  /\ \E i \in 1..(Len(vocab) - 1) : vocab[i][1] > vocab[i + 1][1]

(***************************************************************************)
(* C6: the file is a function of the bag of input elements alone: every    *)
(* partition into batches, every arrival order and every grouping of the   *)
(* partial counts gives the same lines in the same order.                  *)
(***************************************************************************)
ArtifactOfBag == Written => file.lines = RefLines

SeveralBatchesMerged ==
  /\ Written
  /\ nBatches >= 2
  /\ \E x \in RefTop : x[1] >= 2
  /\ Cardinality(RefTop) >= 2

(***************************************************************************)
(* C7 as stated: delivering a partial count to CountGlobally once more     *)
(* leaves the count of every element unchanged.  Fails: the merge is sum.  *)
(***************************************************************************)
RedeliveryIgnored ==
  \A p \in BagToSet(partials) :
     CountGloballyOf(partials (+) BagOf(p)) = CountGloballyOf(partials)

\* The total of the counts of key k in the set S of pairs of the bag B.
RECURSIVE KeyTotal(_, _, _)
KeyTotal(B, S, k) ==
  IF S = {} THEN 0
  ELSE LET p == CHOOSE q \in S : TRUE
       IN  (IF p[1] = k THEN p[2] * CopiesIn(p, B) ELSE 0)
             + KeyTotal(B, S \ {p}, k)

(***************************************************************************)
(* C7 amended: the merge of CountGlobally is addition and not idempotent:  *)
(* a partial count c of an element delivered once more adds c to the       *)
(* count of that element and leaves the other counts unchanged; with       *)
(* every partial count delivered once, the count of every element is its   *)
(* number of occurrences in the input, whatever the order of the merges.   *)
(***************************************************************************)
RedeliveryAdds ==
  /\ \A p \in BagToSet(partials) :
        CountGloballyOf(partials (+) BagOf(p)) =
          SetToBag({<<k, KeyTotal(partials, BagToSet(partials), k)
                           + (IF k = p[1] THEN p[2] ELSE 0)>> :
                      k \in {q[1] : q \in BagToSet(partials)}})
  /\ stage \notin {"init", "failed", "cancelled", "counting", "combining",
                  "done"} =>
        counted = SetToBag({<<e, CopiesIn(e, observed)>> :
                              e \in BagToSet(observed)})

PartialsInFlight ==
  /\ stage = "counting"
  /\ \E p, q \in BagToSet(partials) : p[1] = q[1] /\ p # q

(***************************************************************************)
(* C8: no element of the file is empty or holds a line feed or a carriage  *)
(* return; such elements are discarded whatever their count, the           *)
(* threshold and top_k, and discarding them raises no error.               *)
(***************************************************************************)
NoProblematicElement ==
  Written =>
     /\ \A i \in 1..Len(vocab) :
           /\ vocab[i][2] # <<>>
           /\ LF \notin Range(vocab[i][2])
           /\ CR \notin Range(vocab[i][2])
     /\ \A i \in 1..Len(file.lines) :
           /\ file.lines[i] # <<>>
           /\ LF \notin Range(file.lines[i])
           /\ CR \notin Range(file.lines[i])
     /\ error = "none"

ProblematicDiscarded ==
  /\ Written
  /\ spec.top_k = <<1>>
  /\ CopiesIn(<<CR>>, observed) = 1
  /\ CopiesIn(<<98, LF>>, observed) = 1
  /\ \E x \in RefTable : x[1] = 1 /\ vocab = <<x>>

RECURSIVE BagTotal(_, _)
BagTotal(B, S) ==
  IF S = {} THEN 0
  ELSE LET v == CHOOSE w \in S : TRUE
       IN  v * CopiesIn(v, B) + BagTotal(B, S \ {v})

SumOfAllBatches ==
  (stage = "done" /\ spec.kind = "sum" /\ nBatches > 0) =>
     output = <<BagTotal(observed, BagToSet(observed))>>

ThreeBatchesSummed ==
  /\ stage = "done"
  /\ spec.kind = "sum"
  /\ nBatches = 3
  /\ output = <<5>>


(***************************************************************************)
(* C11: a uniques spec is routed only to the vocabulary transform, a       *)
(* combiner spec only to the combine; a spec of neither class fails with   *)
(* NotImplementedError, and then neither transform runs, no file is        *)
(* written and there is no output.                                         *)
(***************************************************************************)
DispatchExclusive ==
  /\ spec.kind = "uniques" =>
        /\ stage \notin {"combining", "done"}
        /\ accs = EmptyBag
        /\ error # "NotImplementedError"
  /\ spec.kind \in {"quantiles", "sum"} =>
        /\ stage \in {"init", "combining", "done"}
        /\ partials = EmptyBag /\ counted = EmptyBag
        /\ file.state = "absent" /\ ~pathCreated /\ nOrderCalls = 0
        /\ error = "none"
  /\ spec.kind = "other" =>
        /\ stage \in {"init", "failed"}
        /\ stage = "failed" <=> error = "NotImplementedError"
        /\ stage = "init" <=> error = "none"
        /\ nBatches = 0 /\ observed = EmptyBag
        /\ partials = EmptyBag /\ counted = EmptyBag /\ accs = EmptyBag
        /\ nOrderCalls = 0 /\ vocabulary_size = <<>>
        /\ file = [state |-> "absent", lines |-> <<>>]
        /\ ~pathCreated
        /\ output = <<>>

UnsupportedSpecFailed ==
  /\ spec.kind = "other"
  /\ stage = "failed"
  /\ error = "NotImplementedError"
  /\ output = <<>>


(***************************************************************************)
(* C12: when the write of the vocabulary file fails, or the execution is   *)
(* cancelled before the write has completed, the vocabulary path is never  *)
(* emitted: the output stays empty and the file is absent, partial or      *)
(* temporary.                                                              *)
(***************************************************************************)
NoPathAfterFailure ==
  (spec.kind = "uniques" /\ (error = "IOError" \/ stage = "cancelled")) =>
     /\ output = <<>>
     /\ file.state \in {"absent", "partial", "temp"}

WriteFailedPathWaiting ==
  /\ spec.kind = "uniques"
  /\ error = "IOError"
  /\ stage = "failed"
  /\ pathCreated
  /\ file.state \in {"partial", "temp"}
  /\ output = <<>>


(***************************************************************************)
(* C13: after the global count and the filter of empty and line-separator  *)
(* elements, before the threshold and top_k, the counts of the table add   *)
(* up to the number of observed elements the filter did not discard,       *)
(* whatever the partition into batches.                                    *)
(***************************************************************************)
RECURSIVE TableTotal(_, _)
TableTotal(B, S) ==
  IF S = {} THEN 0
  ELSE LET x == CHOOSE y \in S : TRUE
       IN  x[1] * CopiesIn(x, B) + TableTotal(B, S \ {x})

RECURSIVE NumberOfValid(_, _)
NumberOfValid(B, S) ==
  IF S = {} THEN 0
  ELSE LET e == CHOOSE y \in S : TRUE
       IN  (IF WellFormed(e) THEN CopiesIn(e, B) ELSE 0)
             + NumberOfValid(B, S \ {e})

CountsAddUp ==
  (spec.kind = "uniques"
     /\ stage \notin {"init", "counting", "counted", "cancelled"}) =>
     TableTotal(swapped, BagToSet(swapped))
       = NumberOfValid(observed, BagToSet(observed))

TableOfSeveralBatches ==
  /\ spec.kind = "uniques"
  /\ stage = "swapped"
  /\ nBatches >= 2
  /\ TableTotal(swapped, BagToSet(swapped)) = 2
  /\ BagCardinality(observed) = 3
  /\ \E x \in BagToSet(swapped) : x[1] = 2


(***************************************************************************)
(* C14: the file has one line per entry of the sorted table, in its order: *)
(* "<count> <element>" with store_frequency and "<element>" without.  The  *)
(* elements a, b, a, c, b, a with store_frequency and no threshold give    *)
(* "3 a", "2 b", "1 c" without top_k and "3 a" alone with top_k = 1.       *)
(***************************************************************************)
DigitChars == <<48, 49, 50, 51, 52, 53, 54, 55, 56, 57>>

Decimal(n) ==
  IF n < 10 THEN <<DigitChars[n + 1]>>
  ELSE <<DigitChars[(n \div 10) + 1], DigitChars[(n % 10) + 1]>>

ExampleRead == observed = BagOfSeq(ExampleInput)

LinesOfEntries ==
  Written =>
     /\ Len(file.lines) = Len(vocab)
     /\ \A i \in 1..Len(vocab) :
           file.lines[i] =
             IF spec.store_frequency
             THEN Decimal(vocab[i][1]) \o <<32>> \o vocab[i][2]
             ELSE vocab[i][2]
     /\ (ExampleRead /\ spec.store_frequency
           /\ spec.frequency_threshold = None) =>
           /\ spec.top_k = None =>
                file.lines = <<<<51, 32, 97>>, <<50, 32, 98>>, <<49, 32, 99>>>>
           /\ spec.top_k = <<1>> => file.lines = <<<<51, 32, 97>>>>

ExampleWritten ==
  /\ Written
  /\ ExampleRead
  /\ nBatches >= 2
  /\ spec.top_k = None
  /\ file.lines = <<<<51, 32, 97>>, <<50, 32, 98>>, <<49, 32, 99>>>>


(***************************************************************************)
(* C15: on every table of (count, element) entries, for every threshold    *)
(* and every k, the threshold filter followed by the selection of the k    *)
(* largest gives the entries that the selection followed by the filter     *)
(* gives, whatever the arrival order at the selection.                     *)
(***************************************************************************)
FilterThenTop(T, t, k) ==
  {BagOfSeq(TopLargest(<<>>, inputs, k)) :
     inputs \in Orders(FilterByFrequencyThresholdOf(T, t))}

TopThenFilter(T, t, k) ==
  {FilterByFrequencyThresholdOf(BagOfSeq(TopLargest(<<>>, inputs, k)), t) :
     inputs \in Orders(T)}

BothSet ==
  /\ IsUniquesSpec(spec)
  /\ stage = "swapped"
  /\ spec.frequency_threshold # None
  /\ spec.top_k # None

FilterAndTopCommute ==
  BothSet =>
     LET t == spec.frequency_threshold[1]
         k == spec.top_k[1]
     IN  /\ FilterThenTop(swapped, t, k) = TopThenFilter(swapped, t, k)
         /\ Cardinality(FilterThenTop(swapped, t, k)) = 1

FilterAndTopDiffer ==
  /\ BothSet
  /\ LET t == spec.frequency_threshold[1]
         k == spec.top_k[1]
         filtered == FilterByFrequencyThresholdOf(swapped, t)
         largest == FilterThenTop(swapped, 0, k)
     IN  /\ k >= 1
         /\ filtered # swapped
         /\ swapped \notin largest
         /\ filtered \notin largest


(***************************************************************************)
(* C16: no element has two entries in the sorted table, and no two lines   *)
(* of the file are for the same element, however the occurrences of an     *)
(* element are spread over the batches.                                    *)
(***************************************************************************)
OneEntryPerElement ==
  /\ \A i, j \in 1..Len(vocab) : vocab[i][2] = vocab[j][2] => i = j
  /\ Written =>
        /\ Len(file.lines) = Len(vocab)
        /\ \A i, j \in 1..Len(file.lines) :
              file.lines[i] = file.lines[j] => i = j

RepeatedElementWritten ==
  /\ Written
  /\ nBatches >= 2
  /\ Len(vocab) >= 2
  /\ \E e \in BagToSet(observed) :
        /\ CopiesIn(e, observed) >= 3
        /\ \E i \in 1..Len(vocab) : vocab[i] = <<CopiesIn(e, observed), e>>


(***************************************************************************)
(* C17: order_by_decreasing_counts is called at most once, each call       *)
(* records one vocabulary_size sample, and at most one output element is   *)
(* produced.  Once the output element is produced, for any number of       *)
(* batches, there has been one call, the one sample is the number of lines *)
(* of the file (1 for the sentinel alone), and the element is the path     *)
(* "tmp/v", the temp assets directory joined with the file name.           *)
(***************************************************************************)
OneCallOneSampleOnePath ==
  IsUniquesSpec(spec) =>
     /\ nOrderCalls <= 1
     /\ Len(vocabulary_size) = nOrderCalls
     /\ Len(output) <= 1
     /\ Written => vocabulary_size = <<Len(file.lines)>>
     /\ output # <<>> =>
           /\ nOrderCalls = 1
           /\ vocabulary_size = <<Len(file.lines)>>
           /\ file.lines = <<SentinelLine>> => vocabulary_size = <<1>>
           /\ output = <<<<116, 109, 112, 47, 118>>>>

PathOfSeveralBatches ==
  /\ IsUniquesSpec(spec)
  /\ output # <<>>
  /\ nBatches >= 2
  /\ vocabulary_size = <<2>>
  /\ Len(file.lines) = 2


(***************************************************************************)
(* C18: a wrapper of a quantiles spec has had its local state initialized  *)
(* once when it exists, whether it was constructed by expand or loaded     *)
(* from its serialized form, so before any of its methods is called and    *)
(* whatever the number of batches; for any other spec the local state is   *)
(* never initialized.                                                      *)
(***************************************************************************)
LocalStateInitializedOnce ==
  /\ wrapper.used => wrapper.id >= 1
  /\ wrapper.id >= 1 =>
        wrapper.inits = (IF spec.kind = "quantiles" THEN 1 ELSE 0)
  /\ wrapper.id = 0 => wrapper.inits = 0

ReplacementWorkerCalled ==
  /\ spec.kind = "quantiles"
  /\ wrapper.id >= 2
  /\ wrapper.used
  /\ wrapper.inits = 1
  /\ nBatches >= 2
  /\ stage = "done"

====
